---- MODULE Spec2Model ----
(***************************************************************************)
(* Model of conda_package/mpas_tools/mesh/creation/build_mesh.py:          *)
(* the command-line entry point main() and the pipeline build_mesh().      *)
(* One action per statement or collaborator call of the pipeline; every    *)
(* collaborator call either returns or raises, and a raised exception is   *)
(* never caught by build_mesh or main.                                     *)
(***************************************************************************)
EXTENDS Integers, Sequences, FiniteSets, TLC

(* ---------------- bounds of the model ---------------- *)
\* number of distinct --floodplain_elevation values tried besides the default
NumElevations == 1
\* number of distinct cellWidth arrays the user module may return
MaxCellWidth == 2
\* largest number of bounding-polygon edges the user module may return
MaxEdges == 1

(* ---------------- program constants ---------------- *)
\* default of --floodplain_elevation / floodplain_elevation
DefaultElevation == 20
\* exit status of an interpreter that returns from main normally
ExitSuccess == 0
\* exit status of an interpreter ended by an uncaught exception
ExitException == 1
\* exit status of ArgumentParser.error (parse_args on a malformed value)
ExitUsage == 2
\* the process has not exited yet
Running == ExitSuccess - 1

Elevations == {DefaultElevation} \cup {DefaultElevation + 10 * i : i \in 1..NumElevations}

\* values of --geometry tried: the two documented ones and one that is neither
GeometryValues == {"sphere", "plane", "cube"}

\* the datasets inject_bathymetry looks for in the working directory
BathymetrySources == {"earth_relief_15s.nc", "topo.msh"}

\* files JIGSAW leaves behind
JigsawFiles == {"mesh.log", "mesh-HFUN.msh", "mesh.jig", "mesh-MESH.msh", "mesh.msh"}

\* the command line: store_true switches are TRUE when present; the two
\* valued options are omitted, well formed or (for the float) malformed
ElevationArgs ==
    {[kind |-> "omitted", value |-> 0], [kind |-> "malformed", value |-> 0]}
    \cup {[kind |-> "float", value |-> v] : v \in Elevations}

GeometryArgs ==
    {[given |-> FALSE, value |-> ""]}
    \cup {[given |-> TRUE, value |-> g] : g \in GeometryValues}

CommandLines ==
    [preserve_floodplain : BOOLEAN,
     floodplain_elevation : ElevationArgs,
     inject_bathymetry : BOOLEAN,
     geometry : GeometryArgs,
     plot_cellWidth : BOOLEAN]

\* what define_base_mesh returns: the cellWidth array (an identifier), whether
\* its shape matches the axes, and the number of bounding-polygon edges
\* (plane only; 0 on the sphere where no polygon is returned)
NoField == [cellWidth |-> 0, shapeOK |-> FALSE, geom_edges |-> 0]

SphereFields ==
    {[cellWidth |-> w, shapeOK |-> s, geom_edges |-> 0] :
        w \in 1..MaxCellWidth, s \in BOOLEAN}

PlaneFields ==
    [cellWidth : 1..MaxCellWidth, shapeOK : BOOLEAN, geom_edges : 0..MaxEdges]

VARIABLES
    pc,                   \* position in the program
    argv,                 \* the command line given to main
    hasModule,            \* define_base_mesh.py is importable from the CWD
    files,                \* names of the files in the working directory
    written,              \* names of the files written by this run
    cwOnDisk,             \* content of the serialized density field
    meshFields,           \* fields held by base_mesh.nc
    preserve_floodplain,  \* arguments of build_mesh
    floodplain_elevation,
    do_inject_bathymetry,
    geometry,
    plot_cellWidth,
    on_sphere,            \* locals of build_mesh
    cw_filename,
    field,                \* cellWidth and axes returned by the generator
    calls,                \* collaborator calls made so far, in order
    steps,                \* numbers of the steps announced so far
    failedAt,             \* the call that raised, "" if none
    banner,               \* the closing banner has been printed
    cwDims,               \* dimension names of the serialized density field
    jigsawArgs,           \* arguments jigsaw_driver was called with
    exitCode              \* exit status of the process, Running until it ends

vars == <<pc, argv, hasModule, files, written, cwOnDisk, meshFields,
          preserve_floodplain, floodplain_elevation, do_inject_bathymetry,
          geometry, plot_cellWidth, on_sphere, cw_filename, field, calls,
          steps, failedAt, banner, cwDims, jigsawArgs, exitCode>>

env == <<argv, hasModule>>
args == <<preserve_floodplain, floodplain_elevation, do_inject_bathymetry, geometry>>
disk == <<files, written, cwOnDisk, meshFields>>
handoff == <<cwDims, jigsawArgs>>

\* a collaborator call: the function, the on_sphere tag it was given
\* ("True", "False", or "default" when the keyword is not passed), the file
\* it is pointed at, and a numeric argument (elevation or edge count)
Call(fn, tag, file, num) == [fn |-> fn, tag |-> tag, file |-> file, num |-> num]

Tag(b) == IF b THEN "True" ELSE "False"

Init ==
    /\ pc = "import"
    /\ argv \in CommandLines
    /\ hasModule \in BOOLEAN
    /\ files \in SUBSET BathymetrySources
    /\ written = {}
    /\ cwOnDisk = NoField
    /\ meshFields = {}
    /\ preserve_floodplain = FALSE
    /\ floodplain_elevation = 0
    /\ do_inject_bathymetry = FALSE
    /\ geometry = ""
    /\ plot_cellWidth = FALSE
    /\ on_sphere = FALSE
    /\ cw_filename = ""
    /\ field = NoField
    /\ calls = <<>>
    /\ steps = <<>>
    /\ failedAt = ""
    /\ banner = FALSE
    /\ cwDims = <<>>
    /\ jigsawArgs = <<>>
    /\ exitCode = Running

\* variant: main catches the exception and returns normally
Raise_Caught(at) ==
    /\ pc' = "failed"
    /\ failedAt' = at
    /\ exitCode' = ExitSuccess

\* an exception raised by `at` propagates out of build_mesh and main
Raise(at) ==
    /\ pc' = "failed"
    /\ failedAt' = at
    /\ exitCode' = ExitException

\* a file is written into the working directory
Write(names) ==
    /\ files' = files \cup names
    /\ written' = written \cup names

\* import define_base_mesh from the current working directory
ImportModule ==
    /\ pc = "import"
    /\ IF hasModule
         THEN pc' = "main" /\ UNCHANGED <<failedAt, exitCode>>
         ELSE Raise("import define_base_mesh")
    /\ UNCHANGED <<env, handoff, disk, args, plot_cellWidth, on_sphere, cw_filename,
                   field, calls, steps, banner>>

\* main: parse the command line and call build_mesh positionally
main ==
    /\ pc = "main"
    /\ IF argv.floodplain_elevation.kind = "malformed"
         THEN /\ pc' = "failed"
              /\ failedAt' = "parse_args"
              /\ exitCode' = ExitUsage
              /\ UNCHANGED <<args, plot_cellWidth>>
         ELSE /\ pc' = "geometry"
              /\ preserve_floodplain' = argv.preserve_floodplain
              /\ floodplain_elevation' =
                    IF argv.floodplain_elevation.kind = "omitted"
                      THEN DefaultElevation
                      ELSE argv.floodplain_elevation.value
              /\ do_inject_bathymetry' = argv.inject_bathymetry
              /\ geometry' = IF argv.geometry.given THEN argv.geometry.value
                                                     ELSE "sphere"
              /\ plot_cellWidth' = argv.plot_cellWidth
              /\ UNCHANGED <<failedAt, exitCode>>
    /\ UNCHANGED <<env, handoff, disk, on_sphere, cw_filename, field, calls, steps, banner>>

\* variant: the test is written the other way round (geometry != 'plane')
SetOnSphere_NotPlane ==
    /\ pc = "geometry"
    /\ on_sphere' = (geometry # "plane")
    /\ pc' = "step1"
    /\ UNCHANGED <<env, handoff, disk, args, plot_cellWidth, cw_filename, field, calls,
                   steps, failedAt, banner, exitCode>>

\* if geometry == 'sphere': on_sphere = True, else: on_sphere = False
SetOnSphere ==
    /\ pc = "geometry"
    /\ on_sphere' = (geometry = "sphere")
    /\ pc' = "step1"
    /\ UNCHANGED <<env, handoff, disk, args, plot_cellWidth, cw_filename, field, calls,
                   steps, failedAt, banner, exitCode>>

\* Step 1: call the generator of the branch
Step1Generate ==
    /\ pc = "step1"
    /\ steps' = Append(steps, 1)
    /\ LET fn == IF on_sphere THEN "cellWidthVsLatLon" ELSE "cellWidthVsXY" IN
       /\ calls' = Append(calls, Call(fn, "none", "", 0))
       /\ \/ /\ \E f \in (IF on_sphere THEN SphereFields ELSE PlaneFields) :
                   field' = f
             /\ pc' = "serialize"
             /\ UNCHANGED <<failedAt, exitCode>>
          \/ /\ Raise(fn)
             /\ UNCHANGED field
    /\ UNCHANGED <<env, handoff, disk, args, plot_cellWidth, on_sphere, cw_filename, banner>>

\* variant: the DataArray is built but da.to_netcdf(cw_filename) is left out
Step1Serialize_NoWrite ==
    /\ pc = "serialize"
    /\ IF ~field.shapeOK
         THEN /\ Raise("DataArray")
              /\ UNCHANGED <<cw_filename, cwDims>>
         ELSE /\ cw_filename' = IF on_sphere THEN "cellWidthVsLatLon.nc"
                                            ELSE "cellWidthVsXY.nc"
              /\ cwDims' = IF on_sphere THEN <<"lat", "lon">> ELSE <<"y", "x">>
              /\ pc' = IF on_sphere THEN "plot" ELSE "step2"
              /\ UNCHANGED <<failedAt, exitCode>>
    /\ UNCHANGED <<env, jigsawArgs, disk, args, plot_cellWidth, on_sphere, field, calls,
                   steps, banner>>

\* variant: the plotting block is not nested in the sphere branch
Step1Serialize_AlwaysPlot ==
    /\ pc = "serialize"
    /\ IF ~field.shapeOK
         THEN /\ Raise("DataArray")
              /\ UNCHANGED <<disk, cw_filename, cwDims, calls>>
         ELSE /\ cw_filename' = IF on_sphere THEN "cellWidthVsLatLon.nc"
                                            ELSE "cellWidthVsXY.nc"
              /\ cwDims' = IF on_sphere THEN <<"lat", "lon">> ELSE <<"y", "x">>
              /\ calls' = Append(calls, Call("to_netcdf", "none", cw_filename', 0))
              /\ \/ /\ Write({cw_filename'})
                    /\ cwOnDisk' = field
                    /\ pc' = "plot"
                    /\ UNCHANGED <<meshFields, failedAt, exitCode>>
                 \/ /\ Raise("to_netcdf")
                    /\ UNCHANGED disk
    /\ UNCHANGED <<env, jigsawArgs, args, plot_cellWidth, on_sphere, field, steps, banner>>

\* xarray.DataArray(...), cw_filename = ..., da.to_netcdf(cw_filename)
Step1Serialize ==
    /\ pc = "serialize"
    /\ IF ~field.shapeOK
         THEN /\ Raise("DataArray")
              /\ UNCHANGED <<disk, cw_filename, cwDims, calls>>
         ELSE /\ cw_filename' = IF on_sphere THEN "cellWidthVsLatLon.nc"
                                            ELSE "cellWidthVsXY.nc"
              /\ cwDims' = IF on_sphere THEN <<"lat", "lon">> ELSE <<"y", "x">>
              /\ calls' = Append(calls, Call("to_netcdf", "none", cw_filename', 0))
              /\ \/ /\ Write({cw_filename'})
                    /\ cwOnDisk' = field
                    /\ pc' = IF on_sphere THEN "plot" ELSE "step2"
                    /\ UNCHANGED <<meshFields, failedAt, exitCode>>
                 \/ /\ Raise("to_netcdf")
                    /\ UNCHANGED disk
    /\ UNCHANGED <<env, jigsawArgs, args, plot_cellWidth, on_sphere, field, steps, banner>>

\* variant: the plotting block is wrapped in try/except and a failure skipped
Step1Plot_Isolated ==
    /\ pc = "plot"
    /\ plot_cellWidth' = TRUE
    /\ calls' = Append(calls, Call("savefig", "none", "cellWidthGlobal.png", 0))
    /\ \/ /\ Write({"cellWidthGlobal.png"})
          /\ pc' = "step2"
          /\ UNCHANGED <<failedAt>>
       \/ /\ failedAt' = "savefig"
          /\ pc' = "step2"
          /\ UNCHANGED <<files, written>>
    /\ UNCHANGED <<env, handoff, cwOnDisk, meshFields, args, on_sphere, cw_filename,
                   field, steps, banner, exitCode>>

\* variant: without the assignment plot_cellWidth = True
Step1Plot_NoOverride ==
    /\ pc = "plot"
    /\ plot_cellWidth' = plot_cellWidth
    /\ IF plot_cellWidth'
         THEN /\ calls' = Append(calls, Call("savefig", "none", "cellWidthGlobal.png", 0))
              /\ \/ /\ Write({"cellWidthGlobal.png"})
                    /\ pc' = "step2"
                    /\ UNCHANGED <<failedAt, exitCode>>
                 \/ /\ Raise("savefig")
                    /\ UNCHANGED <<files, written>>
         ELSE /\ pc' = "step2"
              /\ UNCHANGED <<files, written, calls, failedAt, exitCode>>
    /\ UNCHANGED <<env, handoff, cwOnDisk, meshFields, args, on_sphere, cw_filename,
                   field, steps, banner>>

\* plot_cellWidth = True; if plot_cellWidth: ... plt.savefig('cellWidthGlobal.png')
Step1Plot ==
    /\ pc = "plot"
    /\ plot_cellWidth' = TRUE
    /\ IF plot_cellWidth'
         THEN /\ calls' = Append(calls, Call("savefig", "none", "cellWidthGlobal.png", 0))
              /\ \/ /\ Write({"cellWidthGlobal.png"})
                    /\ pc' = "step2"
                    /\ UNCHANGED <<failedAt, exitCode>>
                 \/ /\ Raise("savefig")
                    /\ UNCHANGED <<files, written>>
         ELSE /\ pc' = "step2"
              /\ UNCHANGED <<files, written, calls, failedAt, exitCode>>
    /\ UNCHANGED <<env, handoff, cwOnDisk, meshFields, args, on_sphere, cw_filename,
                   field, steps, banner>>

\* variant: a failed jigsaw_driver is tried again
Step2Jigsaw_Retry ==
    /\ pc = "step2"
    /\ steps' = Append(steps, 2)
    /\ calls' = Append(calls,
                  IF on_sphere
                    THEN Call("jigsaw_driver", "default", "", 0)
                    ELSE Call("jigsaw_driver", "False", "", field.geom_edges))
    /\ jigsawArgs' =
          IF on_sphere
            THEN <<"cellWidth", "lon", "lat">>
            ELSE <<"cellWidth", "x", "y", "on_sphere", "geom_points", "geom_edges">>
    /\ \/ /\ Write(JigsawFiles)
          /\ pc' = "step3"
       \/ /\ pc' = "step2"
          /\ UNCHANGED <<files, written>>
    /\ UNCHANGED <<env, cwDims, cwOnDisk, meshFields, args, plot_cellWidth, on_sphere,
                   cw_filename, field, banner, failedAt, exitCode>>

\* variant: the plane branch calls jigsaw_driver like the sphere branch
Step2Jigsaw_NoPolygon ==
    /\ pc = "step2"
    /\ steps' = Append(steps, 2)
    /\ calls' = Append(calls, Call("jigsaw_driver", "default", "", 0))
    /\ jigsawArgs' = IF on_sphere THEN <<"cellWidth", "lon", "lat">>
                                  ELSE <<"cellWidth", "x", "y">>
    /\ \/ /\ Write(JigsawFiles)
          /\ pc' = "step3"
          /\ UNCHANGED <<failedAt, exitCode>>
       \/ /\ Raise("jigsaw_driver")
          /\ UNCHANGED <<files, written>>
    /\ UNCHANGED <<env, cwDims, cwOnDisk, meshFields, args, plot_cellWidth, on_sphere,
                   cw_filename, field, banner>>

\* Step 2: jigsaw_driver(cellWidth, lon, lat) on the sphere, and with
\* on_sphere=False, geom_points, geom_edges on the plane
Step2Jigsaw ==
    /\ pc = "step2"
    /\ steps' = Append(steps, 2)
    /\ calls' = Append(calls,
                  IF on_sphere
                    THEN Call("jigsaw_driver", "default", "", 0)
                    ELSE Call("jigsaw_driver", "False", "", field.geom_edges))
    /\ jigsawArgs' =
          IF on_sphere
            THEN <<"cellWidth", "lon", "lat">>
            ELSE <<"cellWidth", "x", "y", "on_sphere", "geom_points", "geom_edges">>
    /\ \/ /\ Write(JigsawFiles)
          /\ pc' = "step3"
          /\ UNCHANGED <<failedAt, exitCode>>
       \/ /\ Raise("jigsaw_driver")
          /\ UNCHANGED <<files, written>>
    /\ UNCHANGED <<env, cwDims, cwOnDisk, meshFields, args, plot_cellWidth, on_sphere,
                   cw_filename, field, banner>>

\* variant: jigsaw_to_netcdf is given output_name='base_mesh.nc'
Step3JigsawToNetcdf_WrongOutput ==
    /\ pc = "step3"
    /\ steps' = Append(steps, 3)
    /\ calls' = Append(calls, Call("jigsaw_to_netcdf", Tag(on_sphere), "mesh-MESH.msh", 0))
    /\ \/ /\ "mesh-MESH.msh" \in files
          /\ Write({"base_mesh.nc"})
          /\ pc' = "step4"
          /\ UNCHANGED <<failedAt, exitCode>>
       \/ /\ Raise("jigsaw_to_netcdf")
          /\ UNCHANGED <<files, written>>
    /\ UNCHANGED <<env, handoff, cwOnDisk, meshFields, args, plot_cellWidth, on_sphere,
                   cw_filename, field, banner>>

\* variant: jigsaw_to_netcdf is called with the literal on_sphere=True
Step3JigsawToNetcdf_LiteralTag ==
    /\ pc = "step3"
    /\ steps' = Append(steps, 3)
    /\ calls' = Append(calls, Call("jigsaw_to_netcdf", "True", "mesh-MESH.msh", 0))
    /\ \/ /\ "mesh-MESH.msh" \in files
          /\ Write({"mesh_triangles.nc"})
          /\ pc' = "step4"
          /\ UNCHANGED <<failedAt, exitCode>>
       \/ /\ Raise("jigsaw_to_netcdf")
          /\ UNCHANGED <<files, written>>
    /\ UNCHANGED <<env, handoff, cwOnDisk, meshFields, args, plot_cellWidth, on_sphere,
                   cw_filename, field, banner>>

\* Step 3: jigsaw_to_netcdf(msh_filename='mesh-MESH.msh',
\*                          output_name='mesh_triangles.nc', on_sphere=on_sphere)
Step3JigsawToNetcdf ==
    /\ pc = "step3"
    /\ steps' = Append(steps, 3)
    /\ calls' = Append(calls, Call("jigsaw_to_netcdf", Tag(on_sphere), "mesh-MESH.msh", 0))
    /\ \/ /\ "mesh-MESH.msh" \in files
          /\ Write({"mesh_triangles.nc"})
          /\ pc' = "step4"
          /\ UNCHANGED <<failedAt, exitCode>>
       \/ /\ Raise("jigsaw_to_netcdf")
          /\ UNCHANGED <<files, written>>
    /\ UNCHANGED <<env, handoff, cwOnDisk, meshFields, args, plot_cellWidth, on_sphere,
                   cw_filename, field, banner>>

\* Step 4: write_netcdf(convert(xarray.open_dataset('mesh_triangles.nc')),
\*                      'base_mesh.nc')
Step4Convert ==
    /\ pc = "step4"
    /\ steps' = Append(steps, 4)
    /\ LET open == Call("open_dataset", "none", "mesh_triangles.nc", 0)
           conv == Call("convert", "none", "", 0)
           wr   == Call("write_netcdf", "none", "base_mesh.nc", 0)
       IN \/ /\ "mesh_triangles.nc" \in files
             /\ calls' = calls \o <<open, conv, wr>>
             /\ Write({"base_mesh.nc"})
             /\ meshFields' = {}
             /\ pc' = "step5"
             /\ UNCHANGED <<failedAt, exitCode>>
          \/ /\ calls' = Append(calls, open)
             /\ Raise("open_dataset")
             /\ UNCHANGED <<files, written, meshFields>>
          \/ /\ "mesh_triangles.nc" \in files
             /\ calls' = calls \o <<open, conv>>
             /\ Raise("convert")
             /\ UNCHANGED <<files, written, meshFields>>
          \/ /\ "mesh_triangles.nc" \in files
             /\ calls' = calls \o <<open, conv, wr>>
             /\ Raise("write_netcdf")
             /\ UNCHANGED <<files, written, meshFields>>
    /\ UNCHANGED <<env, handoff, cwOnDisk, args, plot_cellWidth, on_sphere, cw_filename,
                   field, banner>>

\* variant: the file name of the sphere branch is passed in both branches
Step5InjectMeshDensity_SphereName ==
    /\ pc = "step5"
    /\ steps' = Append(steps, 5)
    /\ calls' = Append(calls, Call("inject_meshDensity", Tag(on_sphere),
                                   "cellWidthVsLatLon.nc", 0))
    /\ \/ /\ {"cellWidthVsLatLon.nc", "base_mesh.nc"} \subseteq files
          /\ meshFields' = meshFields \cup {"meshDensity"}
          /\ pc' = "step6"
          /\ UNCHANGED <<failedAt, exitCode>>
       \/ /\ Raise("inject_meshDensity")
          /\ UNCHANGED meshFields
    /\ UNCHANGED <<env, handoff, files, written, cwOnDisk, args, plot_cellWidth,
                   on_sphere, cw_filename, field, banner>>

\* Step 5: inject_meshDensity(cw_filename=cw_filename,
\*                            mesh_filename='base_mesh.nc', on_sphere=on_sphere)
Step5InjectMeshDensity ==
    /\ pc = "step5"
    /\ steps' = Append(steps, 5)
    /\ calls' = Append(calls, Call("inject_meshDensity", Tag(on_sphere), cw_filename, 0))
    /\ \/ /\ {cw_filename, "base_mesh.nc"} \subseteq files
          /\ meshFields' = meshFields \cup {"meshDensity"}
          /\ pc' = "step6"
          /\ UNCHANGED <<failedAt, exitCode>>
       \/ /\ Raise("inject_meshDensity")
          /\ UNCHANGED meshFields
    /\ UNCHANGED <<env, handoff, files, written, cwOnDisk, args, plot_cellWidth,
                   on_sphere, cw_filename, field, banner>>

\* inject_bathymetry needs a local link to one of the default datasets
BathymetryAvailable(dir) == dir \cap BathymetrySources # {}

\* variant: a failure of inject_bathymetry is caught and the run goes on
Step6InjectBathymetry_Caught ==
    /\ pc = "step6"
    /\ IF do_inject_bathymetry
         THEN /\ steps' = Append(steps, 6)
              /\ calls' = Append(calls, Call("inject_bathymetry", "none", "base_mesh.nc", 0))
              /\ \/ /\ BathymetryAvailable(files)
                    /\ "base_mesh.nc" \in files
                    /\ meshFields' = meshFields \cup {"bottomDepthObserved"}
                    /\ pc' = "step7"
                 \/ /\ pc' = "step7"
                    /\ UNCHANGED meshFields
         ELSE /\ pc' = "step7"
              /\ UNCHANGED <<steps, calls, meshFields>>
    /\ UNCHANGED <<env, handoff, files, written, cwOnDisk, args, plot_cellWidth,
                   on_sphere, cw_filename, field, banner, failedAt, exitCode>>

\* if do_inject_bathymetry: Step 6, inject_bathymetry(mesh_file='base_mesh.nc')
Step6InjectBathymetry ==
    /\ pc = "step6"
    /\ IF do_inject_bathymetry
         THEN /\ steps' = Append(steps, 6)
              /\ calls' = Append(calls, Call("inject_bathymetry", "none", "base_mesh.nc", 0))
              /\ \/ /\ BathymetryAvailable(files)
                    /\ "base_mesh.nc" \in files
                    /\ meshFields' = meshFields \cup {"bottomDepthObserved"}
                    /\ pc' = "step7"
                    /\ UNCHANGED <<failedAt, exitCode>>
                 \/ /\ Raise("inject_bathymetry")
                    /\ UNCHANGED meshFields
         ELSE /\ pc' = "step7"
              /\ UNCHANGED <<steps, calls, meshFields, failedAt, exitCode>>
    /\ UNCHANGED <<env, handoff, files, written, cwOnDisk, args, plot_cellWidth,
                   on_sphere, cw_filename, field, banner>>

\* variant: the floodplain stage is guarded by the bathymetry flag
Step7InjectPreserveFloodplain_WrongFlag ==
    /\ pc = "step7"
    /\ IF do_inject_bathymetry
         THEN /\ steps' = Append(steps, 7)
              /\ calls' = Append(calls, Call("inject_preserve_floodplain", "none",
                                             "base_mesh.nc", floodplain_elevation))
              /\ \/ /\ "base_mesh.nc" \in files
                    /\ meshFields' = meshFields \cup {"cellSeedMask"}
                    /\ pc' = "step8"
                    /\ UNCHANGED <<failedAt, exitCode>>
                 \/ /\ Raise("inject_preserve_floodplain")
                    /\ UNCHANGED meshFields
         ELSE /\ pc' = "step8"
              /\ UNCHANGED <<steps, calls, meshFields, failedAt, exitCode>>
    /\ UNCHANGED <<env, handoff, files, written, cwOnDisk, args, plot_cellWidth,
                   on_sphere, cw_filename, field, banner>>

\* variant: the floodplain stage is not guarded at all
Step7InjectPreserveFloodplain_Unguarded ==
    /\ pc = "step7"
    /\ IF TRUE
         THEN /\ steps' = Append(steps, 7)
              /\ calls' = Append(calls, Call("inject_preserve_floodplain", "none",
                                             "base_mesh.nc", floodplain_elevation))
              /\ \/ /\ "base_mesh.nc" \in files
                    /\ meshFields' = meshFields \cup {"cellSeedMask"}
                    /\ pc' = "step8"
                    /\ UNCHANGED <<failedAt, exitCode>>
                 \/ /\ Raise("inject_preserve_floodplain")
                    /\ UNCHANGED meshFields
         ELSE /\ pc' = "step8"
              /\ UNCHANGED <<steps, calls, meshFields, failedAt, exitCode>>
    /\ UNCHANGED <<env, handoff, files, written, cwOnDisk, args, plot_cellWidth,
                   on_sphere, cw_filename, field, banner>>

\* if preserve_floodplain: Step 7, inject_preserve_floodplain(
\*     mesh_file='base_mesh.nc', floodplain_elevation=floodplain_elevation)
Step7InjectPreserveFloodplain ==
    /\ pc = "step7"
    /\ IF preserve_floodplain
         THEN /\ steps' = Append(steps, 7)
              /\ calls' = Append(calls, Call("inject_preserve_floodplain", "none",
                                             "base_mesh.nc", floodplain_elevation))
              /\ \/ /\ "base_mesh.nc" \in files
                    /\ meshFields' = meshFields \cup {"cellSeedMask"}
                    /\ pc' = "step8"
                    /\ UNCHANGED <<failedAt, exitCode>>
                 \/ /\ Raise("inject_preserve_floodplain")
                    /\ UNCHANGED meshFields
         ELSE /\ pc' = "step8"
              /\ UNCHANGED <<steps, calls, meshFields, failedAt, exitCode>>
    /\ UNCHANGED <<env, handoff, files, written, cwOnDisk, args, plot_cellWidth,
                   on_sphere, cw_filename, field, banner>>

\* variant: the export is best effort, its failure is reported and the run
\* still ends normally
Step8ExtractVtk_Isolated ==
    /\ pc = "step8"
    /\ steps' = Append(steps, 8)
    /\ calls' = Append(calls, Call("extract_vtk", "none", "base_mesh.nc", 0))
    /\ \/ /\ "base_mesh.nc" \in files
          /\ Write({"base_mesh_vtk"})
          /\ pc' = "banner"
          /\ UNCHANGED <<failedAt, exitCode, banner>>
       \/ /\ failedAt' = "extract_vtk"
          /\ pc' = "done"
          /\ banner' = TRUE
          /\ exitCode' = ExitSuccess
          /\ UNCHANGED <<files, written>>
    /\ UNCHANGED <<env, handoff, cwOnDisk, meshFields, args, plot_cellWidth, on_sphere,
                   cw_filename, field>>

\* variant: a failure of extract_vtk is noted and the run goes on to the banner
Step8ExtractVtk_BestEffort ==
    /\ pc = "step8"
    /\ steps' = Append(steps, 8)
    /\ calls' = Append(calls, Call("extract_vtk", "none", "base_mesh.nc", 0))
    /\ \/ /\ "base_mesh.nc" \in files
          /\ Write({"base_mesh_vtk"})
          /\ pc' = "banner"
          /\ UNCHANGED <<failedAt, exitCode>>
       \/ /\ failedAt' = "extract_vtk"
          /\ pc' = "banner"
          /\ UNCHANGED <<files, written, exitCode>>
    /\ UNCHANGED <<env, handoff, cwOnDisk, meshFields, args, plot_cellWidth, on_sphere,
                   cw_filename, field, banner>>

\* Step 8: extract_vtk(..., filename_pattern='base_mesh.nc', out_dir='base_mesh_vtk')
Step8ExtractVtk ==
    /\ pc = "step8"
    /\ steps' = Append(steps, 8)
    /\ calls' = Append(calls, Call("extract_vtk", "none", "base_mesh.nc", 0))
    /\ \/ /\ "base_mesh.nc" \in files
          /\ Write({"base_mesh_vtk"})
          /\ pc' = "banner"
          /\ UNCHANGED <<failedAt, exitCode>>
       \/ /\ Raise("extract_vtk")
          /\ UNCHANGED <<files, written>>
    /\ UNCHANGED <<env, handoff, cwOnDisk, meshFields, args, plot_cellWidth, on_sphere,
                   cw_filename, field, banner>>

\* the closing banner, then build_mesh and main return
Finish ==
    /\ pc = "banner"
    /\ banner' = TRUE
    /\ pc' = "done"
    /\ exitCode' = ExitSuccess
    /\ UNCHANGED <<env, handoff, disk, args, plot_cellWidth, on_sphere, cw_filename,
                   field, calls, steps, failedAt>>

Next ==
    \/ ImportModule
    \/ main
    \/ SetOnSphere
    \/ Step1Generate
    \/ Step1Serialize
    \/ Step1Plot
    \/ Step2Jigsaw
    \/ Step3JigsawToNetcdf
    \/ Step4Convert
    \/ Step5InjectMeshDensity
    \/ Step6InjectBathymetry
    \/ Step7InjectPreserveFloodplain
    \/ Step8ExtractVtk
    \/ Finish

Spec == Init /\ [][Next]_vars

(* ---------------- helpers for the properties ---------------- *)
HasCall(fn) == \E i \in DOMAIN calls : calls[i].fn = fn

CallIndex(fn) == CHOOSE i \in DOMAIN calls : calls[i].fn = fn

CallCount(fn) == Cardinality({i \in DOMAIN calls : calls[i].fn = fn})

\* this step invokes fn
Invokes(fn) ==
    /\ Len(calls') > Len(calls)
    /\ \E i \in (Len(calls) + 1)..Len(calls') : calls'[i].fn = fn

IsPrefix(s, t) == Len(s) <= Len(t) /\ \A i \in DOMAIN s : s[i] = t[i]

\* the chain of steps a run with the given options goes through
CanonicalChain ==
    <<1, 2, 3, 4, 5>>
    \o (IF do_inject_bathymetry THEN <<6>> ELSE <<>>)
    \o (IF preserve_floodplain THEN <<7>> ELSE <<>>)
    \o <<8>>

\* the artifacts that show that step n has run to completion
StepCompleted(n) ==
    CASE n = 1 -> cw_filename # "" /\ cw_filename \in written
                  /\ (on_sphere => "cellWidthGlobal.png" \in written)
      [] n = 2 -> JigsawFiles \subseteq written
      [] n = 3 -> "mesh_triangles.nc" \in written
      [] n = 4 -> "base_mesh.nc" \in written
      [] n = 5 -> "meshDensity" \in meshFields
      [] n = 6 -> "bottomDepthObserved" \in meshFields
      [] n = 7 -> "cellSeedMask" \in meshFields
      [] n = 8 -> "base_mesh_vtk" \in written
      [] OTHER -> FALSE

\* the elevation the caller asked for on the command line
CallerElevation ==
    IF argv.floodplain_elevation.kind = "float"
      THEN argv.floodplain_elevation.value
      ELSE DefaultElevation

(* ---------------- C1 ---------------- *)
\* C1: jigsaw_driver is never invoked before the serialized density field of
\* the branch has been written (with the generator's content), and
\* inject_meshDensity is never invoked before base_mesh.nc has been written.
C1_StageOrdering ==
    [][ /\ Invokes("jigsaw_driver") =>
             /\ cw_filename \in {"cellWidthVsLatLon.nc", "cellWidthVsXY.nc"}
             /\ cw_filename \in written
             /\ cwOnDisk = field
        /\ Invokes("inject_meshDensity") => "base_mesh.nc" \in written ]_vars

C1_Witness ==
    /\ ~on_sphere
    /\ HasCall("jigsaw_driver")
    /\ HasCall("inject_meshDensity")
    /\ "meshDensity" \in meshFields

(* ---------------- C2 ---------------- *)
\* C2: the steps announced in a run are a prefix of the canonical chain
\* 1,2,3,4,5,[6],[7],8 of the run's options (so each at most once, in order,
\* none re-entered), and every step but the last one announced has completed.
C2_CanonicalPrefix ==
    /\ IsPrefix(steps, CanonicalChain)
    /\ \A i \in 1..(Len(steps) - 1) : StepCompleted(steps[i])
    /\ \A fn \in {"cellWidthVsLatLon", "cellWidthVsXY", "jigsaw_driver",
                  "jigsaw_to_netcdf", "convert", "inject_meshDensity",
                  "inject_bathymetry", "inject_preserve_floodplain",
                  "extract_vtk"} : CallCount(fn) <= 1

C2_Witness ==
    /\ steps = <<1, 2, 3, 4, 5, 6, 7, 8>>
    /\ pc = "done"

(* ---------------- C3 ---------------- *)
\* C3: once density injection has completed, inject_bathymetry is invoked iff
\* do_inject_bathymetry and inject_preserve_floodplain iff preserve_floodplain
\* (unless the run stopped before reaching it); bathymetry precedes
\* floodplain, both follow density injection and precede export, and the
\* floodplain stage is given the caller's floodplain_elevation.
PastStep6 ==
    \/ pc \in {"step7", "step8", "banner", "done"}
    \/ failedAt \in {"inject_preserve_floodplain", "extract_vtk"}

PastStep7 ==
    \/ pc \in {"step8", "banner", "done"}
    \/ failedAt = "extract_vtk"

C3_OptionalStages ==
    /\ HasCall("inject_bathymetry") => do_inject_bathymetry
    /\ HasCall("inject_preserve_floodplain") => preserve_floodplain
    /\ PastStep6 => (HasCall("inject_bathymetry") <=> do_inject_bathymetry)
    /\ PastStep7 => (HasCall("inject_preserve_floodplain") <=> preserve_floodplain)
    /\ failedAt = "inject_bathymetry" => ~HasCall("inject_preserve_floodplain")
    /\ \A fn \in {"inject_bathymetry", "inject_preserve_floodplain"} :
          HasCall(fn) =>
             /\ HasCall("inject_meshDensity")
             /\ CallIndex("inject_meshDensity") < CallIndex(fn)
             /\ "meshDensity" \in meshFields
             /\ HasCall("extract_vtk") => CallIndex(fn) < CallIndex("extract_vtk")
    /\ HasCall("inject_bathymetry") /\ HasCall("inject_preserve_floodplain") =>
          CallIndex("inject_bathymetry") < CallIndex("inject_preserve_floodplain")
    /\ HasCall("inject_preserve_floodplain") =>
          /\ calls[CallIndex("inject_preserve_floodplain")].num = CallerElevation
          /\ calls[CallIndex("inject_preserve_floodplain")].file = "base_mesh.nc"

C3_Witness ==
    /\ pc = "done"
    /\ preserve_floodplain /\ ~do_inject_bathymetry
    /\ HasCall("inject_preserve_floodplain")
    /\ ~HasCall("inject_bathymetry")
    /\ CallerElevation # DefaultElevation

C5_PlaneNoPlot ==
    geometry = "plane" =>
        /\ "cellWidthGlobal.png" \notin files
        /\ ~HasCall("savefig")
        /\ pc # "plot"

C5_Witness ==
    /\ geometry = "plane"
    /\ argv.plot_cellWidth
    /\ pc = "done"

(* ---------------- C6 ---------------- *)
\* the external stages of the pipeline
ExternalStages ==
    {"jigsaw_driver", "jigsaw_to_netcdf", "open_dataset", "convert",
     "write_netcdf", "inject_meshDensity", "inject_bathymetry",
     "inject_preserve_floodplain", "extract_vtk"}

\* C6: when an external stage raises, the run halts there: the raising call
\* is the last call ever made (no later stage, no retry), the failure reaches
\* the caller (non-zero exit, no banner), and nothing that was written before
\* is removed or changed, neither by the failing step nor afterwards.
C6_FailureHalts ==
    [][ /\ failedAt = ""
        /\ files \subseteq files'
        /\ written \subseteq written'
        /\ meshFields \subseteq meshFields'
        /\ (cwOnDisk # NoField => cwOnDisk' = cwOnDisk)
        /\ failedAt' # "" =>
             /\ pc' = "failed"
             /\ exitCode' = ExitException \/ exitCode' = ExitUsage
             /\ ~banner'
             /\ <<files', written', cwOnDisk', meshFields'>> = disk
             /\ failedAt' \in ExternalStages =>
                   /\ calls'[Len(calls')].fn = failedAt'
                   /\ exitCode' = ExitException
                   /\ \A n \in 1..(Len(steps') - 1) :
                         \E m \in 1..8 : m = steps'[n] /\ StepCompleted(m)' ]_vars

C6_Witness ==
    /\ failedAt = "inject_preserve_floodplain"
    /\ pc = "failed"
    /\ {"cellWidthVsXY.nc", "mesh_triangles.nc", "base_mesh.nc"} \subseteq files
    /\ meshFields = {"meshDensity", "bottomDepthObserved"}

SphereArtifacts ==
    {"cellWidthVsLatLon.nc", "cellWidthGlobal.png"}
    \cup JigsawFiles
    \cup {"mesh_triangles.nc", "base_mesh.nc", "base_mesh_vtk"}

EarlierCalls ==
    {"import define_base_mesh", "parse_args", "cellWidthVsLatLon",
     "cellWidthVsXY", "DataArray", "to_netcdf", "savefig", "jigsaw_driver",
     "jigsaw_to_netcdf", "open_dataset", "convert", "write_netcdf",
     "inject_meshDensity"}

\* C9: with do_inject_bathymetry and no bathymetry dataset in the directory,
\* a run in which no earlier stage raises aborts in inject_bathymetry: steps
\* 1 to 5 have completed, base_mesh.nc holds meshDensity, and neither the
\* floodplain stage nor the export is ever invoked.
C9_BathymetryAbsent ==
    (do_inject_bathymetry /\ ~BathymetryAvailable(files)) =>
        /\ pc \notin {"step7", "step8", "banner", "done"}
        /\ ~HasCall("inject_preserve_floodplain")
        /\ ~HasCall("extract_vtk")
        /\ pc = "failed" => failedAt \in EarlierCalls \cup {"inject_bathymetry"}
        /\ failedAt = "inject_bathymetry" =>
              /\ steps = <<1, 2, 3, 4, 5, 6>>
              /\ \A n \in 1..5 : StepCompleted(n)
              /\ "base_mesh.nc" \in files
              /\ meshFields = {"meshDensity"}
              /\ exitCode = ExitException

C9_Witness ==
    /\ do_inject_bathymetry
    /\ preserve_floodplain
    /\ ~BathymetryAvailable(files)
    /\ failedAt = "inject_bathymetry"
    /\ meshFields = {"meshDensity"}

(* ---------------- C10 ---------------- *)
InvalidGeometry == geometry \notin {"", "sphere", "plane"}

\* C10 as stated: an invalid geometry value is detected early and is fatal;
\* no generator is called, nothing is serialized and no mesh stage runs.
C10_InvalidGeometryRejected ==
    InvalidGeometry =>
        /\ calls = <<>>
        /\ written = {}
        /\ pc \in {"geometry", "failed"}

\* C10 as amended: an invalid geometry value is not detected; the run takes
\* the plane branch: on_sphere is False, only cellWidthVsXY is called, the
\* field is serialized as cellWidthVsXY.nc, no plot is made, and the mesh
\* stages run with the plane tag; the run fails only if a call raises.
C10_InvalidGeometryIsPlane ==
    (InvalidGeometry /\ pc # "geometry") =>
        /\ ~on_sphere
        /\ ~HasCall("cellWidthVsLatLon")
        /\ ~HasCall("savefig")
        /\ cw_filename \in {"", "cellWidthVsXY.nc"}
        /\ "cellWidthVsLatLon.nc" \notin files
        /\ pc # "step1" => calls # <<>> /\ calls[1].fn = "cellWidthVsXY"
        /\ \A i \in DOMAIN calls :
              calls[i].fn \in {"jigsaw_driver", "jigsaw_to_netcdf",
                               "inject_meshDensity"} => calls[i].tag = "False"
        /\ pc = "failed" => failedAt = calls[Len(calls)].fn \/ failedAt = "DataArray"

C10_Witness ==
    /\ InvalidGeometry
    /\ pc = "done"
    /\ "cellWidthVsXY.nc" \in written
    /\ "base_mesh.nc" \in written

(* ---------------- C11 ---------------- *)
\* C11: in a plane run whose generator returned an empty boundary-edge list,
\* the run fails as a configuration error: nothing is written and
\* jigsaw_driver is never invoked.
C11_EmptyPolygonRejected ==
    (geometry = "plane" /\ field # NoField /\ field.geom_edges = 0) =>
        /\ ~HasCall("jigsaw_driver")
        /\ written = {}
        /\ pc \in {"serialize", "failed"}

(* ---------------- C12 ---------------- *)
\* what a run of the given branch may show: the generator called, the name
\* and dimensions of the serialized field, the arguments of jigsaw_driver
BranchOf(gen, other, name, otherName, dims, jargs) ==
    /\ ~HasCall(other)
    /\ CallCount(gen) <= 1
    /\ pc \notin {"import", "main", "geometry", "step1"} =>
          calls[1].fn = gen /\ CallCount(gen) = 1
    /\ cw_filename \in {"", name}
    /\ otherName \notin files
    /\ cwDims \in {<<>>, dims}
    /\ name \in written => cw_filename = name /\ cwDims = dims /\ cwOnDisk = field
    /\ jigsawArgs \in {<<>>, jargs}
    /\ HasCall("jigsaw_driver") => jigsawArgs = jargs

Branch ==
    /\ geometry = "sphere" =>
          /\ BranchOf("cellWidthVsLatLon", "cellWidthVsXY",
                      "cellWidthVsLatLon.nc", "cellWidthVsXY.nc",
                      <<"lat", "lon">>, <<"cellWidth", "lon", "lat">>)
          /\ HasCall("jigsaw_driver") =>
                calls[CallIndex("jigsaw_driver")].num = 0
    /\ geometry = "plane" =>
          /\ BranchOf("cellWidthVsXY", "cellWidthVsLatLon",
                      "cellWidthVsXY.nc", "cellWidthVsLatLon.nc",
                      <<"y", "x">>,
                      <<"cellWidth", "x", "y", "on_sphere", "geom_points", "geom_edges">>)
          /\ HasCall("jigsaw_driver") =>
                calls[CallIndex("jigsaw_driver")].num = field.geom_edges

\* C12: once main has passed it, geometry never changes, and on_sphere never
\* changes once set; a sphere run calls cellWidthVsLatLon once and never
\* cellWidthVsXY, serializes to cellWidthVsLatLon.nc on (lat, lon) and passes
\* no polygon to jigsaw_driver; a plane run calls cellWidthVsXY once and never
\* cellWidthVsLatLon, serializes to cellWidthVsXY.nc on (y, x) and passes the
\* generator's geom_points and geom_edges to jigsaw_driver.
C12_GeometryDeterminesBranch ==
    [][ /\ pc \notin {"import", "main"} => geometry' = geometry
        /\ pc \notin {"import", "main", "geometry"} =>
              on_sphere' = on_sphere /\ on_sphere = (geometry = "sphere")
        /\ Branch' ]_vars

C12_Witness ==
    /\ geometry = "plane"
    /\ pc = "done"
    /\ field.geom_edges > 0
    /\ calls[CallIndex("jigsaw_driver")].num = field.geom_edges
    /\ cwDims = <<"y", "x">>

(* ---------------- C13 ---------------- *)
\* the defaults of build_mesh's keyword arguments
BuildMeshDefaults ==
    [preserve_floodplain |-> FALSE,
     floodplain_elevation |-> DefaultElevation,
     do_inject_bathymetry |-> FALSE,
     geometry |-> "sphere",
     plot_cellWidth |-> TRUE]

\* C13: build_mesh is entered with every option equal to its flag's value,
\* and with the option's default where the flag was omitted (a store_true
\* switch that is present gives True); in particular plot_cellWidth is True
\* in a sphere run that omits --plot_cellWidth.
C13_FlagsMapToOptions ==
    pc = "geometry" =>
        /\ preserve_floodplain =
              (argv.preserve_floodplain \/ BuildMeshDefaults.preserve_floodplain)
        /\ floodplain_elevation =
              (IF argv.floodplain_elevation.kind = "float"
                 THEN argv.floodplain_elevation.value
                 ELSE BuildMeshDefaults.floodplain_elevation)
        /\ do_inject_bathymetry =
              (argv.inject_bathymetry \/ BuildMeshDefaults.do_inject_bathymetry)
        /\ geometry = (IF argv.geometry.given THEN argv.geometry.value
                                              ELSE BuildMeshDefaults.geometry)
        /\ geometry = "sphere" =>
              plot_cellWidth =
                 (argv.plot_cellWidth \/ BuildMeshDefaults.plot_cellWidth)

(* ---------------- C15 ---------------- *)
\* C15: inject_meshDensity is given the file name that step 1 of the same run
\* wrote; when it is invoked that file holds exactly the field returned by
\* the generator, on the dimensions of the branch; the file is written only
\* by to_netcdf, with the generator's field, and once written neither it nor
\* its name is changed by any later step.
C15_DensityFieldHandOff ==
    [][ /\ Invokes("inject_meshDensity") =>
             /\ calls'[Len(calls')].file = cw_filename
             /\ cw_filename = (IF on_sphere THEN "cellWidthVsLatLon.nc"
                                            ELSE "cellWidthVsXY.nc")
             /\ cw_filename \in written
             /\ \E i \in DOMAIN calls :
                   calls[i].fn = "to_netcdf" /\ calls[i].file = cw_filename
             /\ cwOnDisk = field
             /\ cwDims = (IF on_sphere THEN <<"lat", "lon">> ELSE <<"y", "x">>)
        /\ cwOnDisk' # cwOnDisk =>
             /\ Invokes("to_netcdf")
             /\ cwOnDisk = NoField
             /\ cwOnDisk' = field
             /\ cw_filename' \in written'
        /\ cwOnDisk # NoField =>
             /\ cw_filename' = cw_filename
             /\ cwDims' = cwDims
             /\ field' = field
             /\ cw_filename \in files' ]_vars

C15_Witness ==
    /\ on_sphere
    /\ HasCall("savefig")
    /\ HasCall("inject_meshDensity")
    /\ calls[CallIndex("inject_meshDensity")].file = "cellWidthVsLatLon.nc"
    /\ "meshDensity" \in meshFields
    /\ cwOnDisk = field

(* ---------------- C16 ---------------- *)
\* the on_sphere value jigsaw_driver works with: the keyword when it is
\* passed, the default of its signature (True) when it is not
JigsawDriverOnSphere(tag) == IF tag = "default" THEN TRUE ELSE tag = "True"

\* the on_sphere value a tagged call works with
EffectiveTag(c) ==
    IF c.fn = "jigsaw_driver" THEN JigsawDriverOnSphere(c.tag) ELSE c.tag = "True"

TaggedCalls == {"jigsaw_driver", "jigsaw_to_netcdf", "inject_meshDensity"}

ReadsOf(c) ==
    CASE c.fn \in {"jigsaw_to_netcdf", "open_dataset", "inject_bathymetry",
                   "inject_preserve_floodplain", "extract_vtk"} -> {c.file}
      [] c.fn = "inject_meshDensity" -> {c.file, "base_mesh.nc"}
      [] OTHER -> {}

ReadersOf(f) == {i \in DOMAIN calls : f \in ReadsOf(calls[i])}

\* mesh_triangles.nc is read at most once, by open_dataset in step 4, and
\* exactly once in a run that got past step 4; base_mesh_vtk is never read
IntermediateReadOnce ==
    /\ Cardinality(ReadersOf("mesh_triangles.nc")) <= 1
    /\ \A i \in ReadersOf("mesh_triangles.nc") : calls[i].fn = "open_dataset"
    /\ "base_mesh.nc" \in written => Cardinality(ReadersOf("mesh_triangles.nc")) = 1
    /\ ReadersOf("base_mesh_vtk") = {}

Injectors == {"inject_meshDensity", "inject_bathymetry", "inject_preserve_floodplain"}

\* C17: base_mesh.nc is created only by write_netcdf in step 4; its fields
\* are changed only by the three injection stages, which only add to them;
\* no step before step 4 creates it or gives it fields; extract_vtk leaves it
\* as it is; mesh_triangles.nc is read exactly once, by the topology
\* conversion; base_mesh_vtk is never read.
C17_FinalMeshFrame ==
    [][ /\ ("base_mesh.nc" \in files' /\ "base_mesh.nc" \notin files) =>
              pc = "step4" /\ Invokes("write_netcdf") /\ meshFields' = {}
        /\ meshFields' # meshFields =>
              /\ "base_mesh.nc" \in files
              /\ \E fn \in Injectors : Invokes(fn)
              /\ meshFields \subseteq meshFields'
        /\ pc \in {"import", "main", "geometry", "step1", "serialize", "plot",
                  "step2", "step3"} =>
              "base_mesh.nc" \notin files' /\ meshFields' = {}
        /\ Invokes("extract_vtk") =>
              /\ meshFields' = meshFields
              /\ "base_mesh.nc" \in files' <=> "base_mesh.nc" \in files
        /\ IntermediateReadOnce' ]_vars

C17_Witness ==
    /\ pc = "done"
    /\ meshFields = {"meshDensity", "bottomDepthObserved", "cellSeedMask"}
    /\ Cardinality(ReadersOf("mesh_triangles.nc")) = 1
    /\ "base_mesh_vtk" \in written

(* ---------------- C18 ---------------- *)
\* the fields the options ask for
RequestedFields ==
    {"meshDensity"}
    \cup (IF do_inject_bathymetry THEN {"bottomDepthObserved"} ELSE {})
    \cup (IF preserve_floodplain THEN {"cellSeedMask"} ELSE {})

\* C18: when extract_vtk raises, the run has failed like after any other
\* stage (non-zero exit, no banner, no export directory, nothing after the
\* export call), and base_mesh.nc exists with exactly the requested fields.
C18_ExportFailureFatal ==
    failedAt = "extract_vtk" =>
        /\ pc = "failed"
        /\ exitCode = ExitException
        /\ ~banner
        /\ calls[Len(calls)].fn = "extract_vtk"
        /\ steps = CanonicalChain
        /\ "base_mesh_vtk" \notin files
        /\ "base_mesh.nc" \in written
        /\ meshFields = RequestedFields

C18_Witness ==
    /\ failedAt = "extract_vtk"
    /\ do_inject_bathymetry
    /\ preserve_floodplain
    /\ meshFields = {"meshDensity", "bottomDepthObserved", "cellSeedMask"}

====
